---- MODULE Spec2Model ----
(***************************************************************************)
(* Image import of containerd: the OCI v1 importer (imageformats/oci) and  *)
(* the legacy Docker v1.1 importer (contrib/docker1).  Both walk a tar     *)
(* stream record by record, write blobs to the content store and select   *)
(* one manifest with a filter expression.                                  *)
(*                                                                         *)
(* Strings are TLA+ strings; names and filter expressions are split and    *)
(* compared the way the Go code does it.                                   *)
(***************************************************************************)
EXTENDS Naturals, Sequences, FiniteSets, TLC

VARIABLES
    variant,    \* "oci" (oci.V1Importer) or "docker1" (docker1.Importer)
    filter,     \* the filter argument of Import / filterManifests
    ctx,        \* the context argument of Import: "live" or "cancelled"
    cancelledAt, \* history: how many records had been read when ctx was cancelled
    pc,         \* "scan": in the record loop; "done": Import returned;
                \* "call" / "returned": filterManifests called on its own
    read,       \* the records tr.Next() has yielded so far, in order
    eof,        \* tr.Next() has returned io.EOF
    cands,      \* argument of a direct filterManifests call
    store,      \* content store: set of committed blobs [digest, data]
    layers,     \* docker1: map filename -> layer descriptor
    configs,    \* docker1: map filename -> imageConfig
    mfst,       \* docker1: selected *manifest (<<>> is nil)
    desc,       \* oci: selected *Descriptor (<<>> is nil)
    ret         \* what the call returned: [val, err]

vars ==
    <<variant, filter, ctx, cancelledAt, pc, read, eof, cands, store, layers, configs, mfst, desc, ret>>

(***************************************************************************)
(* Bounds                                                                  *)
(***************************************************************************)
MaxManifests == 3
MaxStream == 4

(***************************************************************************)
(* Go library functions used by the importers                              *)
(***************************************************************************)
HasPrefix(s, prefix) ==
    Len(s) >= Len(prefix) /\ SubSeq(s, 1, Len(prefix)) = prefix

HasSuffix(s, suffix) ==
    Len(s) >= Len(suffix) /\ SubSeq(s, Len(s) - Len(suffix) + 1, Len(s)) = suffix

\* strings.Index + 1: position of the first occurrence of sep in s, 0 if none
IndexOf(s, sep) ==
    LET hits == {i \in 1..(Len(s) + 1 - Len(sep)) : SubSeq(s, i, i + Len(sep) - 1) = sep}
    IN  IF Len(sep) > Len(s) \/ hits = {} THEN 0
        ELSE CHOOSE i \in hits : \A j \in hits : i <= j

RECURSIVE Split(_, _)
Split(s, sep) ==
    LET i == IndexOf(s, sep)
    IN  IF i = 0 THEN <<s>>
        ELSE <<SubSeq(s, 1, i - 1)>> \o Split(SubSeq(s, i + Len(sep), Len(s)), sep)

Digits == <<"0", "1", "2", "3", "4", "5", "6", "7", "8", "9">>

RECURSIVE Itoa(_)
Itoa(n) ==
    IF n < 10 THEN Digits[n + 1] ELSE Itoa(n \div 10) \o Digits[(n % 10) + 1]

(***************************************************************************)
(* Errors.  kind "" is nil.  errdefs.ErrNotFound and errdefs.ErrAmbiguous  *)
(* are the two sentinel errors a caller can test for with errors.Cause;    *)
(* errors.Errorf makes an error with no such cause.                        *)
(***************************************************************************)
Nil == [kind |-> "", arg |-> ""]
ErrNotFound == [kind |-> "ErrNotFound", arg |-> ""]
ErrAmbiguous == [kind |-> "ErrAmbiguous", arg |-> ""]
Errorf(msg, a) == [kind |-> msg, arg |-> a]
Wrapf(err, a) == [kind |-> err.kind, arg |-> a]
Cause(err) == [kind |-> err.kind, arg |-> ""]

Return(v, e) == [val |-> v, err |-> e]
NoReturn == Return(<<>>, Nil)

(***************************************************************************)
(* filters.Parse and Filter.Match                                          *)
(***************************************************************************)
ParseSelector(clause) ==
    LET parts == Split(clause, "==")
    IN  IF Len(parts) = 2 /\ parts[1] # ""
        THEN <<[fieldpath |-> <<parts[1]>>, value |-> parts[2]]>>
        ELSE <<>>

Parse(s) ==
    IF s = "" THEN [selectors |-> <<>>, err |-> Nil]
    ELSE LET clauses == Split(s, ",")
             sels == [k \in 1..Len(clauses) |-> ParseSelector(clauses[k])]
         IN  IF \E k \in 1..Len(clauses) : sels[k] = <<>>
             THEN [selectors |-> <<>>, err |-> Errorf("InvalidExpression", s)]
             ELSE [selectors |-> [k \in 1..Len(clauses) |-> sels[k][1]], err |-> Nil]

Field(v, ok) == [value |-> v, present |-> ok]

\* the field paths the selectors of f ask an adaptor for
FieldPaths(f) == {f.selectors[k].fieldpath : k \in 1..Len(f.selectors)}

\* selector.Match: the field is present and its value equals the selector's;
\* adaptor maps each field path asked for to what the Adaptor's Field returns
SelectorMatch(sel, adaptor) ==
    LET fld == adaptor[sel.fieldpath]
    IN  fld.present /\ fld.value = sel.value

\* Filter.Match: every selector matches (none: Always)
Match(f, adaptor) ==
    \A k \in 1..Len(f.selectors) : SelectorMatch(f.selectors[k], adaptor)

(***************************************************************************)
(* OCI variant: candidates are the descriptors of index.json               *)
(***************************************************************************)
AnnotationRefName == "org.opencontainers.image.ref.name"
MediaTypeImageManifest == "application/vnd.oci.image.manifest.v1+json"

\* *ocispec.Platform: <<>> is the nil pointer
Platform(arch, os, var) == <<[Architecture |-> arch, OS |-> os, Variant |-> var]>>

Descriptor(mt, dgst, ann, plat) ==
    [MediaType |-> mt, Digest |-> dgst, Annotations |-> ann, Platform |-> plat]

exampleManifests == <<
    Descriptor(MediaTypeImageManifest, "sha256:772a",
               (AnnotationRefName :> "foo") @@ ("test" :> "manifest0"),
               Platform("amd64", "linux", "")),
    Descriptor(MediaTypeImageManifest, "sha256:e5c5",
               (AnnotationRefName :> "bar") @@ ("test" :> "manifest1"),
               <<>>),
    Descriptor(MediaTypeImageManifest, "sha256:e5c5",
               (AnnotationRefName :> "baz") @@ ("test" :> "manifest2"),
               Platform("amd64", "linux", "")),
    Descriptor(MediaTypeImageManifest, "sha256:2f96",
               (AnnotationRefName :> "baz") @@ ("test" :> "manifest3"),
               Platform("arm", "linux", "v7")) >>

\* the descriptor of TestImporterFilterWithSingleManifest: no media type, no platform
singleManifest ==
    Descriptor("", "sha256:772a",
               (AnnotationRefName :> "foo") @@ ("test" :> "manifest0"), <<>>)

\* a descriptor with every optional field empty: no annotations, empty platform
bareManifest == Descriptor("", "", ("test" :> "bare"), Platform("", "", ""))

\* adaptImage with the tag taken from the annotations without its presence flag
adaptImageOCI_TagAlwaysPresent(obj, fieldpath) ==
    IF Len(fieldpath) = 0 THEN Field("", FALSE)
    ELSE LET platform == obj.manifest.Platform
             name == fieldpath[1]
         IN  CASE name = "index" -> Field(Itoa(obj.index), TRUE)
               [] name = "tag" ->
                    IF AnnotationRefName \in DOMAIN obj.manifest.Annotations
                    THEN Field(obj.manifest.Annotations[AnnotationRefName], TRUE)
                    ELSE Field("", TRUE)
               [] name = "digest" ->
                    Field(obj.manifest.Digest, Len(obj.manifest.Digest) > 0)
               [] name = "mediaType" ->
                    Field(obj.manifest.MediaType, Len(obj.manifest.MediaType) > 0)
               [] name = "architecture" ->
                    IF platform # <<>> /\ platform[1].Architecture # ""
                    THEN Field(platform[1].Architecture, TRUE)
                    ELSE Field("", FALSE)
               [] name = "os" ->
                    IF platform # <<>> /\ platform[1].OS # ""
                    THEN Field(platform[1].OS, TRUE)
                    ELSE Field("", FALSE)
               [] name = "variant" ->
                    IF platform # <<>> /\ platform[1].Variant # ""
                    THEN Field(platform[1].Variant, TRUE)
                    ELSE Field("", FALSE)
               [] OTHER -> Field("", FALSE)

\* adaptImage reading the platform fields without the nil test: a missing platform
\* gives the empty value, present
adaptImageOCI_NilPlatformEmpty(obj, fieldpath) ==
    IF Len(fieldpath) = 0 THEN Field("", FALSE)
    ELSE LET platform == IF obj.manifest.Platform = <<>>
                         THEN Platform("", "", "") ELSE obj.manifest.Platform
             name == fieldpath[1]
         IN  CASE name = "index" -> Field(Itoa(obj.index), TRUE)
               [] name = "tag" ->
                    IF AnnotationRefName \in DOMAIN obj.manifest.Annotations
                    THEN Field(obj.manifest.Annotations[AnnotationRefName], TRUE)
                    ELSE Field("", FALSE)
               [] name = "digest" ->
                    Field(obj.manifest.Digest, Len(obj.manifest.Digest) > 0)
               [] name = "mediaType" ->
                    Field(obj.manifest.MediaType, Len(obj.manifest.MediaType) > 0)
               [] name = "architecture" -> Field(platform[1].Architecture, TRUE)
               [] name = "os" -> Field(platform[1].OS, TRUE)
               [] name = "variant" -> Field(platform[1].Variant, TRUE)
               [] OTHER -> Field("", FALSE)

adaptImageOCI(obj, fieldpath) ==
    IF Len(fieldpath) = 0 THEN Field("", FALSE)
    ELSE LET platform == obj.manifest.Platform
             name == fieldpath[1]
         IN  CASE name = "index" -> Field(Itoa(obj.index), TRUE)
               [] name = "tag" ->
                    IF AnnotationRefName \in DOMAIN obj.manifest.Annotations
                    THEN Field(obj.manifest.Annotations[AnnotationRefName], TRUE)
                    ELSE Field("", FALSE)
               [] name = "digest" ->
                    Field(obj.manifest.Digest, Len(obj.manifest.Digest) > 0)
               [] name = "mediaType" ->
                    Field(obj.manifest.MediaType, Len(obj.manifest.MediaType) > 0)
               [] name = "architecture" ->
                    IF platform # <<>> /\ platform[1].Architecture # ""
                    THEN Field(platform[1].Architecture, TRUE)
                    ELSE Field("", FALSE)
               [] name = "os" ->
                    IF platform # <<>> /\ platform[1].OS # ""
                    THEN Field(platform[1].OS, TRUE)
                    ELSE Field("", FALSE)
               [] name = "variant" ->
                    IF platform # <<>> /\ platform[1].Variant # ""
                    THEN Field(platform[1].Variant, TRUE)
                    ELSE Field("", FALSE)
               [] OTHER -> Field("", FALSE)

\* the loop of filterManifests: the matched candidates among the first n, in order
RECURSIVE matchedOCI(_, _, _)
matchedOCI(manifests, f, n) ==
    IF n = 0 THEN <<>>
    ELSE LET prev == matchedOCI(manifests, f, n - 1)
             adapter == [index |-> n - 1, manifest |-> manifests[n]]
         IN  IF Match(f, [fp \in FieldPaths(f) |-> adaptImageOCI(adapter, fp)])
             THEN Append(prev, manifests[n])
             ELSE prev

\* filterManifests returning the first match without the ambiguity check
filterManifestsOCI_FirstMatch(manifests, flt) ==
    LET f == Parse(flt)
    IN  IF f.err # Nil THEN Return(<<>>, f.err)
        ELSE LET matched == matchedOCI(manifests, f, Len(manifests))
             IN  IF Len(matched) = 0 THEN Return(<<>>, Wrapf(ErrNotFound, flt))
                 ELSE Return(<<matched[1]>>, Nil)

filterManifestsOCI(manifests, flt) ==
    LET f == Parse(flt)
    IN  IF f.err # Nil THEN Return(<<>>, f.err)
        ELSE LET matched == matchedOCI(manifests, f, Len(manifests))
             IN  IF Len(matched) > 1 THEN Return(<<>>, Wrapf(ErrAmbiguous, flt))
                 ELSE IF Len(matched) = 0 THEN Return(<<>>, Wrapf(ErrNotFound, flt))
                 ELSE Return(<<matched[1]>>, Nil)

(***************************************************************************)
(* Legacy variant: candidates are the entries of manifest.json             *)
(***************************************************************************)
manifest(config, repoTags, lyrs, parent) ==
    [Config |-> config, RepoTags |-> repoTags, Layers |-> lyrs, Parent |-> parent]

exampleManifestsDocker1 == <<
    manifest("00.json", <<"busybox:latest">>, <<>>, ""),
    manifest("01.json", <<"foo:bar">>, <<>>, "") >>

\* adaptImage with a one-based index
adaptImageDocker1_OneBased(obj, fieldpath) ==
    IF Len(fieldpath) = 0 THEN Field("", FALSE)
    ELSE CASE fieldpath[1] = "index" -> Field(Itoa(obj.index + 1), TRUE)
           [] OTHER -> Field("", FALSE)

\* adaptImage with the repoTag field of the TODO: the first of RepoTags
adaptImageDocker1_RepoTag(obj, fieldpath) ==
    IF Len(fieldpath) = 0 THEN Field("", FALSE)
    ELSE CASE fieldpath[1] = "index" -> Field(Itoa(obj.index), TRUE)
           [] fieldpath[1] = "repoTag" ->
                IF Len(obj.manifest.RepoTags) > 0
                THEN Field(obj.manifest.RepoTags[1], TRUE)
                ELSE Field("", FALSE)
           [] OTHER -> Field("", FALSE)

adaptImageDocker1(obj, fieldpath) ==
    IF Len(fieldpath) = 0 THEN Field("", FALSE)
    ELSE CASE fieldpath[1] = "index" -> Field(Itoa(obj.index), TRUE)
           [] OTHER -> Field("", FALSE)

\* the loop of filterManifests leaving at its first match
RECURSIVE matchedDocker1_BreakAtMatch(_, _, _)
matchedDocker1_BreakAtMatch(manifests, f, n) ==
    IF n = 0 THEN [matched |-> <<>>, err |-> Nil]
    ELSE LET prev == matchedDocker1_BreakAtMatch(manifests, f, n - 1)
             m == manifests[n]
             adapter == [index |-> n - 1, manifest |-> m]
         IN  IF prev.err # Nil \/ Len(prev.matched) > 0 THEN prev
             ELSE IF m.Parent # ""
             THEN [matched |-> <<>>, err |-> Errorf("manifest.Parent is not supported", m.Parent)]
             ELSE IF Match(f, [fp \in FieldPaths(f) |-> adaptImageDocker1(adapter, fp)])
             THEN [matched |-> Append(prev.matched, m), err |-> Nil]
             ELSE prev

\* the loop of filterManifests without the test of Parent
RECURSIVE matchedDocker1_NoParentCheck(_, _, _)
matchedDocker1_NoParentCheck(manifests, f, n) ==
    IF n = 0 THEN [matched |-> <<>>, err |-> Nil]
    ELSE LET prev == matchedDocker1_NoParentCheck(manifests, f, n - 1)
             m == manifests[n]
             adapter == [index |-> n - 1, manifest |-> m]
         IN  IF Match(f, [fp \in FieldPaths(f) |-> adaptImageDocker1(adapter, fp)])
             THEN [matched |-> Append(prev.matched, m), err |-> Nil]
             ELSE prev

\* the loop of filterManifests over the first n entries: it returns at the first
\* entry with a Parent, before that entry is matched
RECURSIVE matchedDocker1(_, _, _)
matchedDocker1(manifests, f, n) ==
    IF n = 0 THEN [matched |-> <<>>, err |-> Nil]
    ELSE LET prev == matchedDocker1(manifests, f, n - 1)
             m == manifests[n]
             adapter == [index |-> n - 1, manifest |-> m]
         IN  IF prev.err # Nil THEN prev
             ELSE IF m.Parent # ""
             THEN [matched |-> <<>>, err |-> Errorf("manifest.Parent is not supported", m.Parent)]
             ELSE IF Match(f, [fp \in FieldPaths(f) |-> adaptImageDocker1(adapter, fp)])
             THEN [matched |-> Append(prev.matched, m), err |-> Nil]
             ELSE prev

\* filterManifests with the ambiguity test off by one (l > 0)
filterManifestsDocker1_OffByOne(manifests, flt) ==
    LET f == Parse(flt)
    IN  IF f.err # Nil THEN Return(<<>>, f.err)
        ELSE LET loop == matchedDocker1(manifests, f, Len(manifests))
                 matched == loop.matched
             IN  IF loop.err # Nil THEN Return(<<>>, loop.err)
                 ELSE IF Len(matched) > 0 THEN Return(<<>>, Wrapf(ErrAmbiguous, flt))
                 ELSE Return(<<>>, Wrapf(ErrNotFound, flt))

filterManifestsDocker1(manifests, flt) ==
    LET f == Parse(flt)
    IN  IF f.err # Nil THEN Return(<<>>, f.err)
        ELSE LET loop == matchedDocker1(manifests, f, Len(manifests))
                 matched == loop.matched
             IN  IF loop.err # Nil THEN Return(<<>>, loop.err)
                 ELSE IF Len(matched) > 1 THEN Return(<<>>, Wrapf(ErrAmbiguous, flt))
                 ELSE IF Len(matched) = 0 THEN Return(<<>>, Wrapf(ErrNotFound, flt))
                 ELSE Return(<<matched[1]>>, Nil)

(***************************************************************************)
(* Tar records, blob contents and the content store                        *)
(***************************************************************************)
TypeReg == "0"
TypeRegA == ""
TypeDir == "5"

\* a tar record: header name and type flag, and the bytes that follow (hdr.Size
\* is their length)
Record(name, typeflag, data) == [Name |-> name, Typeflag |-> typeflag, Data |-> data]

Size(r) == Len(r.Data)

IsRegular(hdr) == ~(hdr.Typeflag # TypeReg /\ hdr.Typeflag # TypeRegA)

\* the hex of the hash of b: one name per content, distinct contents differ
Hex(b) == "h(" \o b \o ")"

\* digest.FromBytes, and the digest a content-store writer computes
FromBytes(b) == "sha256:" \o Hex(b)

NewDigestFromHex(alg, hex) == alg \o ":" \o hex

Available(algo) == algo \in {"sha256", "sha384", "sha512"}

\* a committed blob: the bytes under their digest
Blob(data) == [digest |-> FromBytes(data), data |-> data]

\* context.Canceled, the error of a store call made with a cancelled context
Canceled == [kind |-> "context canceled", arg |-> ""]

\* Writer + io.Copy + Commit(size, expected) of the content store: a call with a
\* cancelled context fails and writes nothing; the blob is committed under the
\* digest of its bytes; a commit whose digest differs from a given expected
\* digest is rejected; committing bytes already stored changes nothing and is
\* no error.
Commit(c, st, data, expected) ==
    LET dgst == FromBytes(data)
    IN  IF c = "cancelled"
        THEN [store |-> st, digest |-> "", err |-> Canceled]
        ELSE IF expected # "" /\ expected # dgst
        THEN [store |-> st, digest |-> dgst, err |-> Errorf("DigestMismatch", expected)]
        ELSE [store |-> st \cup {[digest |-> dgst, data |-> data]},
              digest |-> dgst, err |-> Nil]

\* content.WriteBlob
WriteBlob(c, st, data, expected) == Commit(c, st, data, expected)

StoredDigests(st) == {b.digest : b \in st}

(***************************************************************************)
(* OCI variant: Import                                                     *)
(***************************************************************************)
\* an index entry whose digest is the digest of the bytes "m0", the bytes of the
\* archive's blob record blobs/sha256/h(m0)
storedManifest == Descriptor(MediaTypeImageManifest, FromBytes("m0"), <<>>, <<>>)

\* json.Unmarshal of the bytes of an index.json into ocispec.Index
UnmarshalIndex(b) ==
    CASE b = "index:example" -> [Manifests |-> exampleManifests, err |-> Nil]
      [] b = "index:single" -> [Manifests |-> <<singleManifest>>, err |-> Nil]
      [] b = "index:stored" -> [Manifests |-> <<storedManifest>>, err |-> Nil]
      [] b = "index:empty" -> [Manifests |-> <<>>, err |-> Nil]
      [] OTHER -> [Manifests |-> <<>>, err |-> Errorf("json", b)]

onUntarIndexJSON(data, flt) ==
    LET idx == UnmarshalIndex(data)
    IN  IF idx.err # Nil THEN Return(<<>>, idx.err)
        ELSE filterManifestsOCI(idx.Manifests, flt)

\* onUntarBlob writing the blob with no expected digest
onUntarBlob_NoExpected(c, st, name, data) ==
    LET split == Split(name, "/")
    IN  IF Len(split) # 3
        THEN [store |-> st, err |-> Errorf("unexpected name", name)]
        ELSE IF ~Available(split[2])
        THEN [store |-> st, err |-> Errorf("unsupported algorithm", split[2])]
        ELSE LET w == WriteBlob(c, st, data, "")
             IN  [store |-> w.store, err |-> w.err]

onUntarBlob(c, st, name, data) ==
    LET split == Split(name, "/")
    IN  IF Len(split) # 3
        THEN [store |-> st, err |-> Errorf("unexpected name", name)]
        ELSE IF ~Available(split[2])
        THEN [store |-> st, err |-> Errorf("unsupported algorithm", split[2])]
        ELSE LET dgst == NewDigestFromHex(split[2], split[3])
                 w == WriteBlob(c, st, data, dgst)
             IN  [store |-> w.store, err |-> w.err]

\* Import's return after the loop without the nil test
returnOCI_NoNilCheck(d, flt) == Return(d, Nil)

\* Import's return after the loop
returnOCI(d, flt) ==
    IF d = <<>> THEN Return(<<>>, Errorf("no descriptor found", flt))
    ELSE Return(d, Nil)

(***************************************************************************)
(* Legacy variant: Import                                                  *)
(***************************************************************************)
MediaTypeDockerSchema2Layer == "application/vnd.docker.image.rootfs.diff.tar"
MediaTypeDockerSchema2Config == "application/vnd.docker.container.image.v1+json"
MediaTypeDockerSchema2Manifest == "application/vnd.docker.distribution.manifest.v2+json"

isLayerTar(name) ==
    LET slashes == Len(Split(name, "/"))
    IN  slashes = 2 /\ HasSuffix(name, "/layer.tar")

\* isDotJSON without the count of segments
isDotJSON_SuffixOnly(name) == HasSuffix(name, ".json")

isDotJSON(name) ==
    LET slashes == Len(Split(name, "/"))
    IN  slashes = 1 /\ HasSuffix(name, ".json")

entryOne == manifest("c0.json", <<"busybox:latest">>, <<"l0/layer.tar", "l1/layer.tar">>, "")
entryTwo == manifest("c1.json", <<"foo:bar">>, <<"l1/layer.tar">>, "")
entryParent == manifest("c0.json", <<>>, <<"l0/layer.tar">>, "l1")

\* json.Unmarshal of the bytes of a manifest.json into []manifest
UnmarshalManifests(b) ==
    CASE b = "manifests:one" -> [mfsts |-> <<entryOne>>, err |-> Nil]
      [] b = "manifests:two" -> [mfsts |-> <<entryOne, entryTwo>>, err |-> Nil]
      [] b = "manifests:rev" -> [mfsts |-> <<entryTwo, entryOne>>, err |-> Nil]
      [] b = "manifests:parent" -> [mfsts |-> <<entryTwo, entryParent>>, err |-> Nil]
      [] OTHER -> [mfsts |-> <<>>, err |-> Errorf("json", b)]

\* json.Unmarshal of the bytes of a config into ocispec.Image
UnmarshalImage(b) ==
    CASE b = "image:amd64/linux" -> [img |-> [Architecture |-> "amd64", OS |-> "linux"], err |-> Nil]
      [] b = "image:arm/" -> [img |-> [Architecture |-> "arm", OS |-> ""], err |-> Nil]
      [] b = "image:" -> [img |-> [Architecture |-> "", OS |-> ""], err |-> Nil]
      [] OTHER -> [img |-> [Architecture |-> "", OS |-> ""], err |-> Errorf("json", b)]

onUntarManifestJSON(data, flt) ==
    LET u == UnmarshalManifests(data)
    IN  IF u.err # Nil THEN Return(<<>>, u.err)
        ELSE filterManifestsDocker1(u.mfsts, flt)

BlobDescriptor(mt, size, dgst) == [MediaType |-> mt, Size |-> size, Digest |-> dgst]

\* onUntarLayerTar failing when the committed bytes are already in the store
onUntarLayerTar_AlreadyExists(c, st, name, data) ==
    LET cw == Commit(c, st, data, "")
    IN  IF cw.err # Nil THEN [store |-> cw.store, val |-> <<>>, err |-> cw.err]
        ELSE IF Blob(data) \in st
        THEN [store |-> st, val |-> <<>>, err |-> Errorf("AlreadyExists", cw.digest)]
        ELSE [store |-> cw.store,
              val |-> <<BlobDescriptor(MediaTypeDockerSchema2Layer, Len(data), cw.digest)>>,
              err |-> Nil]

onUntarLayerTar(c, st, name, data) ==
    LET cw == Commit(c, st, data, "")
    IN  IF cw.err # Nil THEN [store |-> cw.store, val |-> <<>>, err |-> cw.err]
        ELSE [store |-> cw.store,
              val |-> <<BlobDescriptor(MediaTypeDockerSchema2Layer, Len(data), cw.digest)>>,
              err |-> Nil]

onUntarDotJSON(c, st, name, data) ==
    LET cw == Commit(c, st, data, "")
        u == UnmarshalImage(data)
    IN  IF cw.err # Nil THEN [store |-> cw.store, val |-> <<>>, err |-> cw.err]
        ELSE IF u.err # Nil THEN [store |-> cw.store, val |-> <<>>, err |-> u.err]
        ELSE [store |-> cw.store,
              val |-> <<[desc |-> BlobDescriptor(MediaTypeDockerSchema2Config, Len(data), cw.digest),
                         img |-> u.img]>>,
              err |-> Nil]

\* the loop of makeDockerSchema2Manifest putting each layer in front of the others
RECURSIVE resolveLayers_Reversed(_, _, _)
resolveLayers_Reversed(names, lyrs, n) ==
    IF n = 0 THEN [Layers |-> <<>>, err |-> Nil]
    ELSE LET prev == resolveLayers_Reversed(names, lyrs, n - 1)
             f == names[n]
         IN  IF prev.err # Nil THEN prev
             ELSE IF f \notin DOMAIN lyrs
             THEN [Layers |-> <<>>, err |-> Errorf("layer not found", f)]
             ELSE [Layers |-> <<lyrs[f]>> \o prev.Layers, err |-> Nil]

\* the loop of makeDockerSchema2Manifest over the first n layer names
RECURSIVE resolveLayers(_, _, _)
resolveLayers(names, lyrs, n) ==
    IF n = 0 THEN [Layers |-> <<>>, err |-> Nil]
    ELSE LET prev == resolveLayers(names, lyrs, n - 1)
             f == names[n]
         IN  IF prev.err # Nil THEN prev
             ELSE IF f \notin DOMAIN lyrs
             THEN [Layers |-> <<>>, err |-> Errorf("layer not found", f)]
             ELSE [Layers |-> Append(prev.Layers, lyrs[f]), err |-> Nil]

\* makeDockerSchema2Manifest leaving out the layers it does not find
RECURSIVE resolveLayers_SkipMissing(_, _, _)
resolveLayers_SkipMissing(names, lyrs, n) ==
    IF n = 0 THEN [Layers |-> <<>>, err |-> Nil]
    ELSE LET prev == resolveLayers_SkipMissing(names, lyrs, n - 1)
             f == names[n]
         IN  IF f \notin DOMAIN lyrs THEN prev
             ELSE [Layers |-> Append(prev.Layers, lyrs[f]), err |-> Nil]

makeDockerSchema2Manifest_SkipMissing(m, config, lyrs) ==
    LET r == resolveLayers_SkipMissing(m.Layers, lyrs, Len(m.Layers))
    IN  [val |-> <<[SchemaVersion |-> 2, Config |-> config.desc, Layers |-> r.Layers]>>,
         err |-> Nil]

makeDockerSchema2Manifest(m, config, lyrs) ==
    LET r == resolveLayers(m.Layers, lyrs, Len(m.Layers))
    IN  IF r.err # Nil THEN [val |-> <<>>, err |-> r.err]
        ELSE [val |-> <<[SchemaVersion |-> 2, Config |-> config.desc, Layers |-> r.Layers]>>,
              err |-> Nil]

\* json.Marshal of a descriptor and of the schema 2 manifest
MarshalDescriptor(d) ==
    "{mediaType:" \o d.MediaType \o ",digest:" \o d.Digest \o ",size:" \o Itoa(d.Size) \o "}"

RECURSIVE MarshalLayers(_, _)
MarshalLayers(ls, n) ==
    IF n = 0 THEN ""
    ELSE MarshalLayers(ls, n - 1) \o (IF n > 1 THEN "," ELSE "") \o MarshalDescriptor(ls[n])

Marshal(m) ==
    "{schemaVersion:" \o Itoa(m.SchemaVersion) \o ",config:" \o MarshalDescriptor(m.Config)
        \o ",layers:[" \o MarshalLayers(m.Layers, Len(m.Layers)) \o "]}"

\* writeDockerSchema2Manifest returning the descriptor of the manifest bytes
\* without writing them to the store
writeDockerSchema2Manifest_NoWrite(c, st, m, arch, os) ==
    LET manifestBytes == Marshal(m)
        manifestDigest == FromBytes(manifestBytes)
    IN  [store |-> st,
         val |-> <<[MediaType |-> MediaTypeDockerSchema2Manifest,
                    Digest |-> manifestDigest,
                    Size |-> Len(manifestBytes),
                    Platform |-> IF arch # "" \/ os # ""
                                 THEN Platform(arch, os, "") ELSE <<>>]>>,
         err |-> Nil]

\* writeDockerSchema2Manifest setting the platform only when both are given
writeDockerSchema2Manifest_BothRequired(c, st, m, arch, os) ==
    LET manifestBytes == Marshal(m)
        manifestDigest == FromBytes(manifestBytes)
        w == WriteBlob(c, st, manifestBytes, manifestDigest)
    IN  IF w.err # Nil THEN [store |-> w.store, val |-> <<>>, err |-> w.err]
        ELSE [store |-> w.store,
              val |-> <<[MediaType |-> MediaTypeDockerSchema2Manifest,
                         Digest |-> manifestDigest,
                         Size |-> Len(manifestBytes),
                         Platform |-> IF arch # "" /\ os # ""
                                      THEN Platform(arch, os, "") ELSE <<>>]>>,
              err |-> Nil]

writeDockerSchema2Manifest(c, st, m, arch, os) ==
    LET manifestBytes == Marshal(m)
        manifestDigest == FromBytes(manifestBytes)
        w == WriteBlob(c, st, manifestBytes, manifestDigest)
    IN  IF w.err # Nil THEN [store |-> w.store, val |-> <<>>, err |-> w.err]
        ELSE [store |-> w.store,
              val |-> <<[MediaType |-> MediaTypeDockerSchema2Manifest,
                         Digest |-> manifestDigest,
                         Size |-> Len(manifestBytes),
                         Platform |-> IF arch # "" \/ os # ""
                                      THEN Platform(arch, os, "") ELSE <<>>]>>,
              err |-> Nil]

\* Import after the loop taking the config from the table without the ok test: a
\* missing config is the zero imageConfig
resolveDocker1_NoOkTest(c, st, m, cfgs, lyrs, flt) ==
    IF m = <<>>
    THEN [store |-> st, val |-> <<>>, err |-> Errorf("no manifest found", flt)]
    ELSE LET config == IF m[1].Config \in DOMAIN cfgs THEN cfgs[m[1].Config]
                       ELSE [desc |-> BlobDescriptor("", 0, ""),
                             img |-> [Architecture |-> "", OS |-> ""]]
             made == makeDockerSchema2Manifest(m[1], config, lyrs)
         IN  IF made.err # Nil THEN [store |-> st, val |-> <<>>, err |-> made.err]
             ELSE writeDockerSchema2Manifest(c, st, made.val[1],
                                                config.img.Architecture, config.img.OS)

\* Import after the loop writing the manifest of the layers found as soon as the
\* config is found, before the layer references are checked
resolveDocker1_WriteFirst(c, st, m, cfgs, lyrs, flt) ==
    IF m = <<>>
    THEN [store |-> st, val |-> <<>>, err |-> Errorf("no manifest found", flt)]
    ELSE IF m[1].Config \notin DOMAIN cfgs
    THEN [store |-> st, val |-> <<>>, err |-> Errorf("image config not found", m[1].Config)]
    ELSE LET config == cfgs[m[1].Config]
             found == makeDockerSchema2Manifest_SkipMissing(m[1], config, lyrs)
             w == writeDockerSchema2Manifest(c, st, found.val[1],
                                             config.img.Architecture, config.img.OS)
             made == makeDockerSchema2Manifest(m[1], config, lyrs)
         IN  IF made.err # Nil THEN [store |-> w.store, val |-> <<>>, err |-> made.err]
             ELSE w

\* Import after the loop: the selected entry's references are looked up in the
\* tables the whole scan has filled, then the schema 2 manifest is written
resolveDocker1(c, st, m, cfgs, lyrs, flt) ==
    IF m = <<>>
    THEN [store |-> st, val |-> <<>>, err |-> Errorf("no manifest found", flt)]
    ELSE IF m[1].Config \notin DOMAIN cfgs
    THEN [store |-> st, val |-> <<>>, err |-> Errorf("image config not found", m[1].Config)]
    ELSE LET config == cfgs[m[1].Config]
             made == makeDockerSchema2Manifest(m[1], config, lyrs)
         IN  IF made.err # Nil THEN [store |-> st, val |-> <<>>, err |-> made.err]
             ELSE writeDockerSchema2Manifest(c, st, made.val[1],
                                                config.img.Architecture, config.img.OS)

(***************************************************************************)
(* Import: the archives and the record loop.  tr.Next() yields any record  *)
(* of the variant's pool, an error, or io.EOF; a handler's failure ends    *)
(* the call.                                                               *)
(***************************************************************************)
RecordsOCI ==
    { Record("index.json", TypeReg, "index:example"),
      Record("index.json", TypeReg, "index:single"),
      Record("index.json", TypeReg, "index:stored"),
      Record("index.json", TypeReg, "{"),
      Record("index.json", TypeDir, ""),
      Record("blobs/sha256/h(m0)", TypeReg, "m0"),
      Record("blobs/sha256/h(m0)", TypeRegA, "m1"),
      Record("blobs/md5/h(m0)", TypeReg, "m0"),
      Record("blobs/sha256", TypeReg, "m0"),
      Record("oci-layout", TypeReg, "layout") }

RecordsDocker1 ==
    { Record("manifest.json", TypeReg, "manifests:one"),
      Record("manifest.json", TypeReg, "manifests:two"),
      Record("manifest.json", TypeReg, "manifests:rev"),
      Record("manifest.json", TypeReg, "manifests:parent"),
      Record("manifest.json", TypeDir, ""),
      Record("l0/layer.tar", TypeReg, "L0"),
      Record("l1/layer.tar", TypeRegA, "L1"),
      Record("c0.json", TypeReg, "image:arm/"),
      Record("c1.json", TypeReg, "image:"),
      Record("c1.json", TypeReg, "{"),
      Record("l0/c0.json", TypeReg, "image:amd64/linux") }

FiltersImport == {"", "index==1"}

\* a store that earlier Import calls have committed blobs to
InitialStore == {Blob("m0"), Blob("L0"), Blob("image:")}

\* Import is called with store st: the tables and the selection are created empty
Start(st) ==
    /\ variant \in {"oci", "docker1"}
    /\ filter \in FiltersImport
    /\ ctx = "live"
    /\ cancelledAt = 0
    /\ pc = "scan"
    /\ read = <<>>
    /\ eof = FALSE
    /\ cands = <<>>
    /\ store = st
    /\ layers = <<>>
    /\ configs = <<>>
    /\ mfst = <<>>
    /\ desc = <<>>
    /\ ret = NoReturn

Init == Start({})

Scanning(v) == pc = "scan" /\ variant = v /\ Len(read) < MaxStream

\* Import returns (val, err)
Finish(r) == pc' = "done" /\ ret' = r

\* tr.Next() fails
OCINextError ==
    /\ pc = "scan" /\ variant = "oci"
    /\ Finish(Return(<<>>, Errorf("tar", "")))
    /\ UNCHANGED <<variant, filter, ctx, cancelledAt, read, eof, cands, store, layers, configs, mfst, desc>>

OCISkipNonRegular ==
    /\ Scanning("oci")
    /\ \E hdr \in RecordsOCI :
          /\ ~IsRegular(hdr)
          /\ read' = Append(read, hdr)
    /\ UNCHANGED <<variant, filter, ctx, cancelledAt, pc, eof, cands, store, layers, configs, mfst, desc, ret>>

OCIOnIndexJSON ==
    /\ Scanning("oci")
    /\ \E hdr \in RecordsOCI :
          /\ IsRegular(hdr)
          /\ hdr.Name = "index.json"
          /\ read' = Append(read, hdr)
          /\ LET r == onUntarIndexJSON(hdr.Data, filter)
             IN  IF r.err # Nil
                 THEN Finish(Return(<<>>, r.err)) /\ UNCHANGED desc
                 ELSE desc' = r.val /\ UNCHANGED <<pc, ret>>
    /\ UNCHANGED <<variant, filter, ctx, cancelledAt, eof, cands, store, layers, configs, mfst>>

OCIOnBlob ==
    /\ Scanning("oci")
    /\ \E hdr \in RecordsOCI :
          /\ IsRegular(hdr)
          /\ hdr.Name # "index.json"
          /\ HasPrefix(hdr.Name, "blobs/")
          /\ read' = Append(read, hdr)
          /\ LET r == onUntarBlob(ctx, store, hdr.Name, hdr.Data)
             IN  /\ store' = r.store
                 /\ IF r.err # Nil
                    THEN Finish(Return(<<>>, r.err))
                    ELSE UNCHANGED <<pc, ret>>
    /\ UNCHANGED <<variant, filter, ctx, cancelledAt, eof, cands, layers, configs, mfst, desc>>

OCIIgnore ==
    /\ Scanning("oci")
    /\ \E hdr \in RecordsOCI :
          /\ IsRegular(hdr)
          /\ hdr.Name # "index.json"
          /\ ~HasPrefix(hdr.Name, "blobs/")
          /\ read' = Append(read, hdr)
    /\ UNCHANGED <<variant, filter, ctx, cancelledAt, pc, eof, cands, store, layers, configs, mfst, desc, ret>>

\* tr.Next() returns io.EOF
OCIEOF ==
    /\ pc = "scan" /\ variant = "oci"
    /\ eof' = TRUE
    /\ Finish(returnOCI(desc, filter))
    /\ UNCHANGED <<variant, filter, ctx, cancelledAt, read, cands, store, layers, configs, mfst, desc>>

Docker1NextError ==
    /\ pc = "scan" /\ variant = "docker1"
    /\ Finish(Return(<<>>, Errorf("tar", "")))
    /\ UNCHANGED <<variant, filter, ctx, cancelledAt, read, eof, cands, store, layers, configs, mfst, desc>>

Docker1SkipNonRegular ==
    /\ Scanning("docker1")
    /\ \E hdr \in RecordsDocker1 :
          /\ ~IsRegular(hdr)
          /\ read' = Append(read, hdr)
    /\ UNCHANGED <<variant, filter, ctx, cancelledAt, pc, eof, cands, store, layers, configs, mfst, desc, ret>>

\* the manifest.json branch resolving the config reference as soon as the entry
\* is selected
Docker1OnManifestJSON_Eager ==
    /\ Scanning("docker1")
    /\ \E hdr \in RecordsDocker1 :
          /\ IsRegular(hdr)
          /\ hdr.Name = "manifest.json"
          /\ read' = Append(read, hdr)
          /\ LET r == onUntarManifestJSON(hdr.Data, filter)
             IN  IF r.err # Nil
                 THEN Finish(Return(<<>>, r.err)) /\ UNCHANGED mfst
                 ELSE IF r.val[1].Config \notin DOMAIN configs
                 THEN /\ Finish(Return(<<>>, Errorf("image config not found", r.val[1].Config)))
                      /\ UNCHANGED mfst
                 ELSE mfst' = r.val /\ UNCHANGED <<pc, ret>>
    /\ UNCHANGED <<variant, filter, ctx, cancelledAt, eof, cands, store, layers, configs, desc>>

\* the manifest.json branch keeping the entry an earlier manifest.json selected
Docker1OnManifestJSON_KeepFirst ==
    /\ Scanning("docker1")
    /\ \E hdr \in RecordsDocker1 :
          /\ IsRegular(hdr)
          /\ hdr.Name = "manifest.json"
          /\ read' = Append(read, hdr)
          /\ LET r == onUntarManifestJSON(hdr.Data, filter)
             IN  IF r.err # Nil
                 THEN Finish(Return(<<>>, r.err)) /\ UNCHANGED mfst
                 ELSE mfst' = (IF mfst = <<>> THEN r.val ELSE mfst) /\ UNCHANGED <<pc, ret>>
    /\ UNCHANGED <<variant, filter, ctx, cancelledAt, eof, cands, store, layers, configs, desc>>

Docker1OnManifestJSON ==
    /\ Scanning("docker1")
    /\ \E hdr \in RecordsDocker1 :
          /\ IsRegular(hdr)
          /\ hdr.Name = "manifest.json"
          /\ read' = Append(read, hdr)
          /\ LET r == onUntarManifestJSON(hdr.Data, filter)
             IN  IF r.err # Nil
                 THEN Finish(Return(<<>>, r.err)) /\ UNCHANGED mfst
                 ELSE mfst' = r.val /\ UNCHANGED <<pc, ret>>
    /\ UNCHANGED <<variant, filter, ctx, cancelledAt, eof, cands, store, layers, configs, desc>>

\* the layer branch going on to the next record while the layer's write is still
\* to be committed
Docker1OnLayerTar_Uncommitted ==
    /\ Scanning("docker1")
    /\ \E hdr \in RecordsDocker1 :
          /\ IsRegular(hdr)
          /\ hdr.Name # "manifest.json"
          /\ isLayerTar(hdr.Name)
          /\ read' = Append(read, hdr)
          /\ LET r == onUntarLayerTar(ctx, store, hdr.Name, hdr.Data)
             IN  /\ store' = store
                 /\ IF r.err # Nil
                    THEN Finish(Return(<<>>, r.err)) /\ UNCHANGED layers
                    ELSE /\ layers' = (hdr.Name :> r.val[1]) @@ layers
                         /\ UNCHANGED <<pc, ret>>
    /\ UNCHANGED <<variant, filter, ctx, cancelledAt, eof, cands, configs, mfst, desc>>

Docker1OnLayerTar ==
    /\ Scanning("docker1")
    /\ \E hdr \in RecordsDocker1 :
          /\ IsRegular(hdr)
          /\ hdr.Name # "manifest.json"
          /\ isLayerTar(hdr.Name)
          /\ read' = Append(read, hdr)
          /\ LET r == onUntarLayerTar(ctx, store, hdr.Name, hdr.Data)
             IN  /\ store' = r.store
                 /\ IF r.err # Nil
                    THEN Finish(Return(<<>>, r.err)) /\ UNCHANGED layers
                    ELSE /\ layers' = (hdr.Name :> r.val[1]) @@ layers
                         /\ UNCHANGED <<pc, ret>>
    /\ UNCHANGED <<variant, filter, ctx, cancelledAt, eof, cands, configs, mfst, desc>>

\* the config branch going on to the next record when the handler fails
Docker1OnDotJSON_KeepGoing ==
    /\ Scanning("docker1")
    /\ \E hdr \in RecordsDocker1 :
          /\ IsRegular(hdr)
          /\ hdr.Name # "manifest.json"
          /\ ~isLayerTar(hdr.Name)
          /\ isDotJSON(hdr.Name)
          /\ read' = Append(read, hdr)
          /\ LET r == onUntarDotJSON(ctx, store, hdr.Name, hdr.Data)
             IN  /\ store' = r.store
                 /\ IF r.err # Nil
                    THEN UNCHANGED <<pc, ret, configs>>
                    ELSE /\ configs' = (hdr.Name :> r.val[1]) @@ configs
                         /\ UNCHANGED <<pc, ret>>
    /\ UNCHANGED <<variant, filter, ctx, cancelledAt, eof, cands, layers, mfst, desc>>

Docker1OnDotJSON ==
    /\ Scanning("docker1")
    /\ \E hdr \in RecordsDocker1 :
          /\ IsRegular(hdr)
          /\ hdr.Name # "manifest.json"
          /\ ~isLayerTar(hdr.Name)
          /\ isDotJSON(hdr.Name)
          /\ read' = Append(read, hdr)
          /\ LET r == onUntarDotJSON(ctx, store, hdr.Name, hdr.Data)
             IN  /\ store' = r.store
                 /\ IF r.err # Nil
                    THEN Finish(Return(<<>>, r.err)) /\ UNCHANGED configs
                    ELSE /\ configs' = (hdr.Name :> r.val[1]) @@ configs
                         /\ UNCHANGED <<pc, ret>>
    /\ UNCHANGED <<variant, filter, ctx, cancelledAt, eof, cands, layers, mfst, desc>>

Docker1Ignore ==
    /\ Scanning("docker1")
    /\ \E hdr \in RecordsDocker1 :
          /\ IsRegular(hdr)
          /\ hdr.Name # "manifest.json"
          /\ ~isLayerTar(hdr.Name)
          /\ ~isDotJSON(hdr.Name)
          /\ read' = Append(read, hdr)
    /\ UNCHANGED <<variant, filter, ctx, cancelledAt, pc, eof, cands, store, layers, configs, mfst, desc, ret>>

\* tr.Next() returns io.EOF: the references are resolved and the manifest written
Docker1EOF ==
    /\ pc = "scan" /\ variant = "docker1"
    /\ eof' = TRUE
    /\ LET r == resolveDocker1(ctx, store, mfst, configs, layers, filter)
       IN  /\ store' = r.store
           /\ Finish(Return(r.val, r.err))
    /\ UNCHANGED <<variant, filter, ctx, cancelledAt, read, cands, layers, configs, mfst, desc>>

Next ==
    \/ OCINextError
    \/ OCISkipNonRegular
    \/ OCIOnIndexJSON
    \/ OCIOnBlob
    \/ OCIIgnore
    \/ OCIEOF
    \/ Docker1NextError
    \/ Docker1SkipNonRegular
    \/ Docker1OnManifestJSON
    \/ Docker1OnLayerTar
    \/ Docker1OnDotJSON
    \/ Docker1Ignore
    \/ Docker1EOF

Spec == Init /\ [][Next]_vars

\* Import on a store that already holds blobs
InitStored == Start(InitialStore)

SpecStored == InitStored /\ [][Next]_vars

\* the caller cancels the context while Import runs
Cancel ==
    /\ pc = "scan"
    /\ ctx = "live"
    /\ cancelledAt = 0
    /\ ctx' = "cancelled"
    /\ cancelledAt' = Len(read)
    /\ UNCHANGED <<variant, filter, pc, read, eof, cands, store, layers, configs, mfst, desc, ret>>

NextCancel == Cancel \/ Next

SpecCancel == Init /\ [][NextCancel]_vars

(***************************************************************************)
(* filterManifests called on its own: the inputs                           *)
(***************************************************************************)
BoundedSeq(S, n) == UNION {[1..k -> S] : k \in 0..n}

DescriptorPool ==
    {exampleManifests[k] : k \in 1..Len(exampleManifests)} \cup {bareManifest}

CandidatesOCI ==
    BoundedSeq(DescriptorPool, MaxManifests) \cup {exampleManifests, <<singleManifest>>}

FiltersOCI ==
    { "", "index==0", "index==1", "index==2", "index==3", "index==4", "index==01",
      "tag==foo", "tag==baz", "tag==a", "tag==", "tag==Foo",
      "digest==sha256:e5c5", "mediaType==",
      "tag==foo,digest==sha256:772a", "tag==baz,digest==sha256:e5c5",
      "tag==baz,architecture==amd64", "tag==baz,architecture==arm",
      "tag==baz,os==linux", "tag==f00,digest==sha256:e5c5",
      "architecture==", "os==linux", "variant==v7",
      "mediaType==application/vnd.oci.image.manifest.v1+json", "repoTag==foobar",
      "tag=foo" }

ManifestPool ==
    {exampleManifestsDocker1[k] : k \in 1..Len(exampleManifestsDocker1)}
        \cup { manifest("00.json", <<"busybox:latest">>, <<"l0/layer.tar">>, "parent"),
               manifest("02.json", <<>>, <<"l0/layer.tar", "l1/layer.tar">>, "") }

CandidatesDocker1 == BoundedSeq(ManifestPool, MaxManifests)

FiltersDocker1 ==
    { "", "index==0", "index==1", "index==2", "index==3", "index==01",
      "repoTag==foobar", "repoTag==busybox:latest", "tag==foo", "digest==sha256:772a",
      "architecture==amd64", "index==0,repoTag==foobar", "Config==00.json",
      "index==0,index==0", "index==0,index==1", "index=0" }

InitFilter ==
    /\ variant \in {"oci", "docker1"}
    /\ cands \in (IF variant = "oci" THEN CandidatesOCI ELSE CandidatesDocker1)
    /\ filter \in (IF variant = "oci" THEN FiltersOCI ELSE FiltersDocker1)
    /\ ctx = "live"
    /\ cancelledAt = 0
    /\ pc = "call"
    /\ ret = NoReturn
    /\ read = <<>>
    /\ eof = FALSE
    /\ store = {}
    /\ layers = <<>>
    /\ configs = <<>>
    /\ mfst = <<>>
    /\ desc = <<>>

CallFilterManifestsOCI ==
    /\ pc = "call"
    /\ variant = "oci"
    /\ ret' = filterManifestsOCI(cands, filter)
    /\ pc' = "returned"
    /\ UNCHANGED <<variant, filter, ctx, cancelledAt, read, eof, cands, store, layers, configs, mfst, desc>>

CallFilterManifestsDocker1 ==
    /\ pc = "call"
    /\ variant = "docker1"
    /\ ret' = filterManifestsDocker1(cands, filter)
    /\ pc' = "returned"
    /\ UNCHANGED <<variant, filter, ctx, cancelledAt, read, eof, cands, store, layers, configs, mfst, desc>>

NextFilter == CallFilterManifestsOCI \/ CallFilterManifestsDocker1

SpecFilter == InitFilter /\ [][NextFilter]_vars

(***************************************************************************)
(* What the claims say about selection, stated without the adaptors:       *)
(* the fields a candidate at zero-based position i has, as (name, value)   *)
(* pairs, and the clauses of a well-formed expression.                     *)
(***************************************************************************)
Decimal(i) == Digits[i + 1]

FieldsOfDescriptor(m, i) ==
    {<<"index", Decimal(i)>>}
        \cup (IF AnnotationRefName \in DOMAIN m.Annotations
              THEN {<<"tag", m.Annotations[AnnotationRefName]>>} ELSE {})
        \cup (IF m.Digest # "" THEN {<<"digest", m.Digest>>} ELSE {})
        \cup (IF m.MediaType # "" THEN {<<"mediaType", m.MediaType>>} ELSE {})
        \cup (IF m.Platform # <<>> /\ m.Platform[1].Architecture # ""
              THEN {<<"architecture", m.Platform[1].Architecture>>} ELSE {})
        \cup (IF m.Platform # <<>> /\ m.Platform[1].OS # ""
              THEN {<<"os", m.Platform[1].OS>>} ELSE {})
        \cup (IF m.Platform # <<>> /\ m.Platform[1].Variant # ""
              THEN {<<"variant", m.Platform[1].Variant>>} ELSE {})

FieldsOfEntry(m, i) == {<<"index", Decimal(i)>>}

FieldsOf(m, i) ==
    IF variant = "oci" THEN FieldsOfDescriptor(m, i) ELSE FieldsOfEntry(m, i)

WellFormed(flt) == Parse(flt).err = Nil

Clauses(flt) ==
    LET sels == Parse(flt).selectors
    IN  {<<sels[k].fieldpath[1], sels[k].value>> : k \in 1..Len(sels)}

\* positions (1-based) of the candidates every clause of flt holds for
Satisfying(flt) == {k \in 1..Len(cands) : Clauses(flt) \subseteq FieldsOf(cands[k], k - 1)}

Returned == pc = "returned"

HasParent == variant = "docker1" /\ \E k \in 1..Len(cands) : cands[k].Parent # ""

ParentUnsupported ==
    ret.val = <<>> /\ ret.err.kind = "manifest.Parent is not supported"

\* the selection policy: NotFound on no match, Ambiguous on several, else the match
PolicyHolds ==
    LET sat == Satisfying(filter)
    IN  /\ sat = {} => ret.val = <<>> /\ Cause(ret.err) = ErrNotFound
        /\ Cardinality(sat) >= 2 => ret.val = <<>> /\ Cause(ret.err) = ErrAmbiguous
        /\ Cardinality(sat) = 1 => ret = Return(<<cands[CHOOSE k \in sat : TRUE]>>, Nil)
        /\ ErrNotFound # ErrAmbiguous

\* C1 (as stated): for any candidate list and any well-formed expression, selection
\* fails with NotFound when nothing matches, with Ambiguous when two or more
\* candidates match, and returns the match when exactly one does.
C1_Original == Returned /\ WellFormed(filter) => PolicyHolds

\* C1 (amended): the policy holds for every OCI list and for every legacy list in
\* which no entry has a Parent; a legacy list with such an entry fails with the
\* unsupported-Parent error whatever matches.
C1_SelectionPolicy ==
    Returned /\ WellFormed(filter) =>
        /\ ~HasParent => PolicyHolds
        /\ HasParent => ParentUnsupported

C1_Witness ==
    /\ Returned /\ variant = "oci" /\ cands = exampleManifests
    /\ filter = "tag==baz,architecture==arm"
    /\ ret = Return(<<exampleManifests[4]>>, Nil)

\* C2 (as stated): a list of one candidate and the empty expression always select
\* that candidate, whatever its fields.
C2_Original ==
    Returned /\ Len(cands) = 1 /\ filter = "" => ret = Return(<<cands[1]>>, Nil)

\* C2 (amended): a list of one candidate and the empty expression select that
\* candidate, unless it is a legacy entry with a Parent, which fails with the
\* unsupported-Parent error.
C2_SingleEmptyFilter ==
    Returned /\ Len(cands) = 1 /\ filter = "" =>
        /\ ~HasParent => ret = Return(<<cands[1]>>, Nil)
        /\ HasParent => ParentUnsupported

C2_Witness ==
    /\ Returned /\ variant = "docker1" /\ filter = ""
    /\ cands = <<exampleManifestsDocker1[1]>>
    /\ ret = Return(<<exampleManifestsDocker1[1]>>, Nil)

\* C3 (as stated): a list of two or more candidates and the empty expression always
\* fail with Ambiguous.
C3_Original ==
    Returned /\ Len(cands) >= 2 /\ filter = "" =>
        ret.val = <<>> /\ Cause(ret.err) = ErrAmbiguous

\* C3 (amended): a list of two or more candidates and the empty expression fail
\* with Ambiguous, unless a legacy entry of the list has a Parent, which fails with
\* the unsupported-Parent error; they never succeed.
C3_MultiEmptyFilter ==
    Returned /\ Len(cands) >= 2 /\ filter = "" =>
        /\ ~HasParent => ret.val = <<>> /\ Cause(ret.err) = ErrAmbiguous
        /\ HasParent => ParentUnsupported

C3_Witness ==
    /\ Returned /\ variant = "docker1" /\ filter = ""
    /\ cands = exampleManifestsDocker1
    /\ ret = Return(<<>>, Wrapf(ErrAmbiguous, ""))

IndexFilter(i) == "index==" \o Decimal(i)

\* C4 (as stated): index==i with 0 <= i < n selects the candidate at position i.
C4_Original ==
    \A i \in 0..(Len(cands) - 1) :
        Returned /\ filter = IndexFilter(i) => ret = Return(<<cands[i + 1]>>, Nil)

\* C4 (amended): index==i with 0 <= i < n selects the candidate at position i,
\* unless a legacy entry of the list (at any position) has a Parent, which fails
\* with the unsupported-Parent error.
C4_IndexSelects ==
    \A i \in 0..(Len(cands) - 1) :
        Returned /\ filter = IndexFilter(i) =>
            /\ ~HasParent => ret = Return(<<cands[i + 1]>>, Nil)
            /\ HasParent => ParentUnsupported

C4_Witness ==
    /\ Returned /\ variant = "oci" /\ cands = exampleManifests
    /\ filter = "index==2"
    /\ ret = Return(<<exampleManifests[3]>>, Nil)

\* positions (1-based) of the candidates the OCI adaptor matches against flt
MatchedPositionsOCI(flt) ==
    LET f == Parse(flt)
        paths == FieldPaths(f)
    IN  {k \in 1..Len(cands) :
            Match(f, [fp \in paths |->
                        adaptImageOCI([index |-> k - 1, manifest |-> cands[k]], fp)])}

ClauseText(c) == c[1] \o "==" \o c[2]

\* C5: in the OCI variant a candidate matches iff every clause names a field the
\* candidate has with exactly that value; the matched set of a conjunction is the
\* intersection of the matched sets of its clauses; the result follows the matched
\* set (candidates sharing a tag or digest are matched together), and a clause no
\* candidate satisfies gives NotFound.
C5_ConjunctionOCI ==
    Returned /\ variant = "oci" /\ WellFormed(filter) =>
        /\ MatchedPositionsOCI(filter) = Satisfying(filter)
        /\ MatchedPositionsOCI(filter) =
              {k \in 1..Len(cands) :
                  \A c \in Clauses(filter) : k \in MatchedPositionsOCI(ClauseText(c))}
        /\ PolicyHolds
        /\ (\E c \in Clauses(filter) : MatchedPositionsOCI(ClauseText(c)) = {}) =>
              ret.val = <<>> /\ Cause(ret.err) = ErrNotFound

C5_Witness ==
    /\ Returned /\ variant = "oci" /\ cands = exampleManifests
    /\ filter = "tag==baz,os==linux"
    /\ MatchedPositionsOCI(filter) = {3, 4}
    /\ ret = Return(<<>>, Wrapf(ErrAmbiguous, filter))

\* a selector of flt naming a field other than index
OtherFieldSelectors(flt) ==
    LET sels == Parse(flt).selectors
    IN  {sels[k] : k \in {j \in 1..Len(sels) : sels[j].fieldpath[1] # "index"}}

NoEntryMatchesOtherField ==
    \A sel \in OtherFieldSelectors(filter) : \A k \in 1..Len(cands) :
        ~SelectorMatch(sel,
             [fp \in {sel.fieldpath} |->
                 adaptImageDocker1([index |-> k - 1, manifest |-> cands[k]], fp)])

LegacyOtherField ==
    Returned /\ variant = "docker1" /\ WellFormed(filter) /\ OtherFieldSelectors(filter) # {}

\* C10 (as stated): in the legacy variant a clause on a field other than index
\* matches no candidate, and an expression with such a clause gives NotFound for
\* every candidate list.
C10_Original ==
    LegacyOtherField =>
        /\ NoEntryMatchesOtherField
        /\ ret.val = <<>> /\ Cause(ret.err) = ErrNotFound

\* C10 (amended): in the legacy variant a clause on a field other than index
\* matches no candidate, and an expression with such a clause gives NotFound for
\* every candidate list in which no entry has a Parent; with such an entry the
\* call fails with the unsupported-Parent error instead.
C10_LegacyIndexOnly ==
    LegacyOtherField =>
        /\ NoEntryMatchesOtherField
        /\ ~HasParent => ret.val = <<>> /\ Cause(ret.err) = ErrNotFound
        /\ HasParent => ParentUnsupported

C10_Witness ==
    /\ Returned /\ variant = "docker1" /\ filter = "repoTag==busybox:latest"
    /\ cands = <<exampleManifestsDocker1[1]>>
    /\ ret = Return(<<>>, Wrapf(ErrNotFound, filter))

(***************************************************************************)
(* Import: what the claims say                                             *)
(***************************************************************************)
Done == pc = "done"

\* the regular-file records read so far
RegularRead == {read[k] : k \in {j \in 1..Len(read) : IsRegular(read[j])}}

MetadataName == IF variant = "oci" THEN "index.json" ELSE "manifest.json"

MetadataRead == {r \in RegularRead : r.Name = MetadataName}

LayerRead == {r \in RegularRead : r.Name # "manifest.json" /\ isLayerTar(r.Name)}

ConfigRead ==
    {r \in RegularRead : r.Name # "manifest.json" /\ ~isLayerTar(r.Name) /\ isDotJSON(r.Name)}

Names(rs) == {r.Name : r \in rs}

Range(q) == {q[k] : k \in 1..Len(q)}

\* the entry a manifest.json record selects under the call's filter
SelectedBy(r) == onUntarManifestJSON(r.Data, filter)

RecordNamed(rs, name) == CHOOSE r \in rs : r.Name = name

\* the descriptor of the schema 2 manifest of entry e, from the set of records of
\* the archive (no order)
ExpectedDescriptor(e) ==
    LET c == RecordNamed(ConfigRead, e.Config)
        img == UnmarshalImage(c.Data).img
        blob(mt, r) == BlobDescriptor(mt, Len(r.Data), FromBytes(r.Data))
        bytes == Marshal([SchemaVersion |-> 2,
                          Config |-> blob(MediaTypeDockerSchema2Config, c),
                          Layers |-> [k \in 1..Len(e.Layers) |->
                                        blob(MediaTypeDockerSchema2Layer,
                                             RecordNamed(LayerRead, e.Layers[k]))]])
    IN  [MediaType |-> MediaTypeDockerSchema2Manifest,
         Digest |-> FromBytes(bytes),
         Size |-> Len(bytes),
         Platform |-> IF img.Architecture = "" /\ img.OS = ""
                      THEN <<>> ELSE Platform(img.Architecture, img.OS, "")]

\* the records read hold one manifest.json, which selects an entry, and besides
\* it only the config (valid JSON) and layers that entry references, each name once
ArchiveRecords ==
    /\ variant = "docker1"
    /\ Cardinality(MetadataRead) = 1
    /\ Cardinality(Names(RegularRead)) = Cardinality(RegularRead)
    /\ \A r \in MetadataRead :
          /\ SelectedBy(r).err = Nil
          /\ LET e == SelectedBy(r).val[1]
             IN  /\ Names(RegularRead) \subseteq {"manifest.json", e.Config} \cup Range(e.Layers)
                 /\ \A c \in ConfigRead : UnmarshalImage(c.Data).err = Nil

\* the archive read to its end held every record the selected entry references
CompleteArchive ==
    /\ ArchiveRecords /\ Done /\ eof
    /\ \A r \in MetadataRead :
          LET e == SelectedBy(r).val[1]
          IN  /\ e.Config \in Names(ConfigRead)
              /\ Range(e.Layers) \subseteq Names(LayerRead)

\* C6: a legacy archive that holds one manifest.json and the config and layer
\* records its selected entry references is imported successfully, with the same
\* descriptor, in whatever order its records come, manifest.json last included:
\* no record of it fails the call while references are still to come (only the
\* tar reader's own failure ends the scan early), and at the end of the stream
\* the descriptor is the one the set of records determines.
C6_OrderIndependent ==
    /\ ArchiveRecords /\ Done /\ ~eof => ret = Return(<<>>, Errorf("tar", ""))
    /\ CompleteArchive =>
          \A r \in MetadataRead :
              ret = Return(<<ExpectedDescriptor(SelectedBy(r).val[1])>>, Nil)

C6_Witness ==
    /\ CompleteArchive
    /\ Len(read) = 4
    /\ read[4].Name = "manifest.json"
    /\ read[1].Name = "l1/layer.tar"
    /\ ret.err = Nil /\ ret.val # <<>>

\* the layer names of the selected entry that no layer record read has
MissingLayers ==
    IF mfst = <<>> THEN {} ELSE {f \in Range(mfst[1].Layers) : f \notin Names(LayerRead)}

FirstMissingLayer ==
    LET ls == mfst[1].Layers
        k == CHOOSE i \in 1..Len(ls) :
                /\ ls[i] \in MissingLayers
                /\ \A j \in 1..(i - 1) : ls[j] \notin MissingLayers
    IN  ls[k]

ConfigMissing == mfst # <<>> /\ mfst[1].Config \notin Names(ConfigRead)

\* C7 (as stated): when the selected entry lists a layer file that no layer record
\* of the stream has, the call fails with the missing-layer error naming that
\* file.  (Stated for the streams read to their end in which the entry's config
\* was found, where nothing but the layer lookup can fail.)
C7_Original ==
    variant = "docker1" /\ Done /\ eof /\ ~ConfigMissing =>
        \A f \in MissingLayers : ret = Return(<<>>, Errorf("layer not found", f))

\* C7 (amended): when the selected entry lists a layer file that no layer record
\* of the stream has, the call never returns a descriptor; at the end of the
\* stream it fails with a missing-reference error that names the first reference
\* it cannot resolve: the config file if that is missing, else the first missing
\* layer in the order of the layer list.
C7_MissingLayer ==
    variant = "docker1" /\ Done /\ MissingLayers # {} =>
        /\ ret.val = <<>> /\ ret.err # Nil
        /\ eof /\ ConfigMissing =>
              ret.err = Errorf("image config not found", mfst[1].Config)
        /\ eof /\ ~ConfigMissing =>
              ret.err = Errorf("layer not found", FirstMissingLayer)

C7_Witness ==
    /\ variant = "docker1" /\ Done /\ eof
    /\ mfst = <<entryOne>>
    /\ Names(RegularRead) = {"manifest.json", "c0.json", "l0/layer.tar"}
    /\ ret = Return(<<>>, Errorf("layer not found", "l1/layer.tar"))

\* the digest a blob record's name encodes
NameDigest(r) == LET split == Split(r.Name, "/") IN NewDigestFromHex(split[2], split[3])

\* the record read last is a regular blobs/<algorithm>/<hex> record, of an
\* available algorithm, whose bytes hash to another digest
MismatchedBlobRead ==
    /\ variant = "oci" /\ Len(read) > 0
    /\ LET r == read[Len(read)]
       IN  /\ IsRegular(r)
           /\ HasPrefix(r.Name, "blobs/")
           /\ Len(Split(r.Name, "/")) = 3
           /\ Available(Split(r.Name, "/")[2])
           /\ FromBytes(r.Data) # NameDigest(r)

\* C8: in an OCI Import a blobs/<algorithm>/<hex> record whose content hashes to
\* another digest makes the call fail with DigestMismatch: no descriptor is
\* returned and the content is not stored under the digest of the name.
C8_DigestMismatch ==
    MismatchedBlobRead =>
        LET r == read[Len(read)]
        IN  /\ Done
            /\ ret = Return(<<>>, Errorf("DigestMismatch", NameDigest(r)))
            /\ [digest |-> NameDigest(r), data |-> r.Data] \notin store
            /\ FromBytes(r.Data) \notin StoredDigests(store)

C8_Witness ==
    /\ MismatchedBlobRead /\ Done
    /\ Len(read) = 3
    /\ desc # <<>>
    /\ store # {}
    /\ ret.err.kind = "DigestMismatch"

\* the stream was read to its end and held no regular metadata-file record
EndedWithoutMetadata == Done /\ eof /\ MetadataRead = {}

LastRead == read[Len(read)]

\* the record read last is a regular manifest.json that parses, and the filter
\* designates exactly one of its entries, at position k (1-based)
LastManifestDesignates(k) ==
    /\ variant = "docker1" /\ Len(read) > 0
    /\ IsRegular(LastRead) /\ LastRead.Name = "manifest.json"
    /\ UnmarshalManifests(LastRead.Data).err = Nil
    /\ WellFormed(filter)
    /\ LET es == UnmarshalManifests(LastRead.Data).mfsts
       IN  {j \in 1..Len(es) : Clauses(filter) \subseteq FieldsOfEntry(es[j], j - 1)} = {k}

\* C11: a legacy entry with a non-empty Parent is never imported: the selection a
\* legacy Import holds, and the one a successful call returns from, has an empty
\* Parent; a manifest.json whose entry designated by the filter has a Parent ends
\* the call with the unsupported-Parent error.
C11_ParentNotImported ==
    variant = "docker1" =>
        /\ mfst # <<>> => mfst[1].Parent = ""
        /\ Done /\ ret.err = Nil => mfst # <<>> /\ mfst[1].Parent = ""
        /\ \A k \in 1..MaxManifests :
              LastManifestDesignates(k)
                  /\ UnmarshalManifests(LastRead.Data).mfsts[k].Parent # "" =>
                      /\ Done
                      /\ ret = Return(<<>>, Errorf("manifest.Parent is not supported",
                                   UnmarshalManifests(LastRead.Data).mfsts[k].Parent))

C11_Witness ==
    /\ Done /\ LastManifestDesignates(2)
    /\ Len(read) = 3
    /\ LastRead.Data = "manifests:parent"
    /\ configs # <<>>
    /\ ret.err.kind = "manifest.Parent is not supported"

\* hdr is a regular record the variant ingests as a blob, well named
BlobRecord(hdr) ==
    /\ IsRegular(hdr)
    /\ IF variant = "oci"
       THEN /\ hdr.Name # "index.json" /\ HasPrefix(hdr.Name, "blobs/")
            /\ Len(Split(hdr.Name, "/")) = 3
            /\ Available(Split(hdr.Name, "/")[2])
            /\ NameDigest(hdr) = FromBytes(hdr.Data)
       ELSE hdr.Name # "manifest.json" /\ (isLayerTar(hdr.Name) \/ isDotJSON(hdr.Name))

StoredUnder(st, dgst) == {b \in st : b.digest = dgst}

ReadSinceCancel == Len(read) - cancelledAt

\* C13: once the context is cancelled, Import reads at most one further record,
\* and a call that has read a record since then returns a failure.
C13_CancelChecked ==
    ctx = "cancelled" =>
        /\ ReadSinceCancel <= 1
        /\ Done /\ ReadSinceCancel >= 1 => ret.err # Nil

\* a legacy Import has returned a descriptor
LegacySuccess == variant = "docker1" /\ Done /\ ret.err = Nil /\ ret.val # <<>>

\* the regular record named name that was read last
LastRecordNamed(name) ==
    LET at == {k \in 1..Len(read) : IsRegular(read[k]) /\ read[k].Name = name}
    IN  read[CHOOSE k \in at : \A j \in at : j <= k]

\* the descriptor of the bytes of a layer record
LayerDescriptorOf(r) == BlobDescriptor(MediaTypeDockerSchema2Layer, Len(r.Data), FromBytes(r.Data))

\* the bytes of the schema 2 manifest with the given layers and the selected
\* entry's config
ManifestBytes(lyrs) ==
    Marshal([SchemaVersion |-> 2, Config |-> configs[mfst[1].Config].desc, Layers |-> lyrs])

\* C14: in a successful legacy Import the manifest written has one layer per
\* layer name of the selected entry, in the order of the entry's list, the i-th
\* being the table's descriptor of the i-th name, which is the descriptor of the
\* record of that name (the last one read), wherever in the stream it came.
C14_LayerOrder ==
    LegacySuccess =>
        LET refs == mfst[1].Layers
            assembled == [i \in 1..Len(refs) |-> layers[refs[i]]]
        IN  /\ \A i \in 1..Len(refs) :
                  assembled[i] = LayerDescriptorOf(LastRecordNamed(refs[i]))
            /\ Blob(ManifestBytes(assembled)) \in store
            /\ ret.val[1].Digest = FromBytes(ManifestBytes(assembled))
            /\ ret.val[1].Size = Len(ManifestBytes(assembled))

C14_Witness ==
    /\ LegacySuccess
    /\ mfst = <<entryOne>>
    /\ read[1].Name = "l1/layer.tar" /\ read[2].Name = "l0/layer.tar"
    /\ Blob(ManifestBytes(<<layers["l0/layer.tar"], layers["l1/layer.tar"]>>)) \in store
    /\ layers["l0/layer.tar"] # layers["l1/layer.tar"]

Segments(name) == Split(name, "/")

\* the names the claim lists as recognised: index.json and blobs/<algorithm>/<hex>;
\* manifest.json, <hex>/layer.tar and <hex>.json (<algorithm> and <hex> stand for
\* any non-empty segment)
RecognisedName(name) ==
    LET seg == Segments(name)
    IN  IF variant = "oci"
        THEN \/ name = "index.json"
             \/ Len(seg) = 3 /\ seg[1] = "blobs" /\ seg[2] # "" /\ seg[3] # ""
        ELSE \/ name = "manifest.json"
             \/ Len(seg) = 2 /\ seg[1] # "" /\ seg[2] = "layer.tar"
             \/ Len(seg) = 1 /\ HasSuffix(name, ".json") /\ Len(name) > Len(".json")

\* the names no branch of the record loop takes
UnroutedName(name) ==
    LET seg == Segments(name)
    IN  IF variant = "oci"
        THEN name # "index.json" /\ (Len(name) < 6 \/ SubSeq(name, 1, 6) # "blobs/")
        ELSE /\ name # "manifest.json"
             /\ ~(Len(seg) = 2 /\ seg[2] = "layer.tar")
             /\ ~(Len(seg) = 1 /\ HasSuffix(name, ".json"))

\* the step reads hdr and changes nothing else
OnlyRead(hdr) ==
    /\ read' = Append(read, hdr)
    /\ UNCHANGED <<variant, filter, ctx, cancelledAt, pc, eof, cands, store, layers,
                   configs, mfst, desc, ret>>

\* C15 (as stated): a regular record whose name is none of the recognised ones is
\* ignored: the step that reads it changes nothing but the position in the stream.
C15_Original ==
    [][\A hdr \in RecordsOCI \cup RecordsDocker1 :
          read' = Append(read, hdr) /\ IsRegular(hdr) /\ ~RecognisedName(hdr.Name) =>
              OnlyRead(hdr)
      ]_vars

\* C15 (amended): a regular record is ignored when, in the OCI variant, its name
\* is not index.json and does not begin with "blobs/", and in the legacy variant,
\* its name is not manifest.json, is not two segments ending in layer.tar and is
\* not one segment ending in .json; an OCI name that begins with "blobs/" without
\* having three segments is not ignored: it fails the call with the
\* unexpected-name error, nothing being written.
C15_IgnoredNames ==
    [][\A hdr \in RecordsOCI \cup RecordsDocker1 :
          read' = Append(read, hdr) /\ IsRegular(hdr) =>
              /\ UnroutedName(hdr.Name) => OnlyRead(hdr)
              /\ variant = "oci" /\ hdr.Name # "index.json" /\ ~UnroutedName(hdr.Name)
                    /\ Len(Segments(hdr.Name)) # 3 =>
                        /\ pc' = "done"
                        /\ ret' = Return(<<>>, Errorf("unexpected name", hdr.Name))
                        /\ store' = store
      ]_vars

C15_Witness ==
    /\ variant = "docker1" /\ pc = "scan" /\ Len(read) = 2
    /\ read[1].Name = "l1/layer.tar"
    /\ IsRegular(LastRead) /\ LastRead.Name = "l0/c0.json"
    /\ UnroutedName(LastRead.Name) /\ ~RecognisedName(LastRead.Name)
    /\ store = {Blob("L1")} /\ configs = <<>> /\ DOMAIN layers = {"l1/layer.tar"}

\* the error the handler of regular record hdr returns in the current state
RecordError(hdr) ==
    IF variant = "oci"
    THEN IF hdr.Name = "index.json" THEN onUntarIndexJSON(hdr.Data, filter).err
         ELSE IF HasPrefix(hdr.Name, "blobs/")
         THEN onUntarBlob(ctx, store, hdr.Name, hdr.Data).err
         ELSE Nil
    ELSE IF hdr.Name = "manifest.json" THEN onUntarManifestJSON(hdr.Data, filter).err
         ELSE IF isLayerTar(hdr.Name)
         THEN onUntarLayerTar(ctx, store, hdr.Name, hdr.Data).err
         ELSE IF isDotJSON(hdr.Name)
         THEN onUntarDotJSON(ctx, store, hdr.Name, hdr.Data).err
         ELSE Nil

\* C16: the step in which the handling of a record fails ends the call with that
\* failure; it writes nothing but, at most, that record's own bytes and leaves
\* the tables and the selection alone; no step removes a blob from the store;
\* and a call that has returned takes no further step (no record read, no blob
\* written, no retry).
C16_FailureIsTerminal ==
    [][/\ store \subseteq store'
       /\ pc # "done"
       /\ \A hdr \in RecordsOCI \cup RecordsDocker1 :
             read' = Append(read, hdr) /\ IsRegular(hdr) /\ RecordError(hdr) # Nil =>
                 /\ pc' = "done"
                 /\ ret' = Return(<<>>, RecordError(hdr))
                 /\ store' \subseteq store \cup {Blob(hdr.Data)}
                 /\ UNCHANGED <<layers, configs, mfst, desc, eof>>
      ]_vars

C16_Witness ==
    /\ variant = "docker1" /\ Done /\ ~eof /\ Len(read) = 3
    /\ read[1].Name = "l1/layer.tar" /\ read[2].Name = "manifest.json"
    /\ LastRead = Record("c1.json", TypeReg, "{")
    /\ ret = Return(<<>>, Errorf("json", "{"))
    /\ store = {Blob("L1"), Blob("{")}
    /\ mfst # <<>> /\ configs = <<>>

\* the parsed config of the selected entry: the image read from the bytes of the
\* config record the entry names
SelectedImage == UnmarshalImage(LastRecordNamed(mfst[1].Config).Data).img

PlatformFields == {"architecture", "os", "variant"}

\* right-hand sides a clause on a platform field may name
PlatformValues == {"", "amd64", "arm", "linux", "v7"}

\* the clauses of flt on a platform field
PlatformClauses(flt) == {c \in Clauses(flt) : c[1] \in PlatformFields}

\* the clause name==v matches the OCI candidate m at zero-based position i
ClauseMatchesOCI(name, v, m, i) ==
    SelectorMatch([fieldpath |-> <<name>>, value |-> v],
                  [fp \in {<<name>>} |-> adaptImageOCI([index |-> i, manifest |-> m], fp)])

\* C18: in the OCI variant no clause on architecture, os or variant matches a
\* candidate without platform metadata, whatever value it names, the empty one
\* included; an expression with such a clause matches no such candidate and
\* never returns one.
C18_NoPlatformNoMatch ==
    Returned /\ variant = "oci" =>
        /\ \A k \in 1..Len(cands) :
              cands[k].Platform = <<>> =>
                  /\ \A name \in PlatformFields : \A v \in PlatformValues :
                        ~ClauseMatchesOCI(name, v, cands[k], k - 1)
                  /\ WellFormed(filter) /\ PlatformClauses(filter) # {} =>
                        k \notin MatchedPositionsOCI(filter)
        /\ WellFormed(filter) /\ PlatformClauses(filter) # {} /\ ret.err = Nil =>
              ret.val[1].Platform # <<>>

C18_Witness ==
    /\ Returned /\ variant = "oci"
    /\ filter = "os==linux"
    /\ cands = <<exampleManifests[2], exampleManifests[3]>>
    /\ cands[1].Platform = <<>>
    /\ ret = Return(<<exampleManifests[3]>>, Nil)

ConfigNotFound == ret.err.kind = "image config not found"

\* C19: a legacy Import read to the end of its stream, whose selected entry names a
\* config file that no config record of the stream had, fails with the
\* config-not-found error naming that file; the error is only ever returned at
\* the end of the stream and only when the file is missing from the whole of it,
\* so a config record that comes after manifest.json is found.
C19_ConfigMissingAtEOF ==
    variant = "docker1" =>
        /\ Done /\ eof /\ ConfigMissing =>
              ret = Return(<<>>, Errorf("image config not found", mfst[1].Config))
        /\ ConfigNotFound => Done /\ eof /\ ConfigMissing

C19_Witness ==
    /\ variant = "docker1" /\ Done /\ eof /\ ConfigMissing
    /\ Len(read) = 3
    /\ mfst = <<entryTwo>>
    /\ Names(ConfigRead) = {"c0.json"} /\ Names(LayerRead) = {"l1/layer.tar"}
    /\ ret = Return(<<>>, Errorf("image config not found", "c1.json"))

\* C20: Import takes the records one at a time, in stream order: a step reads at
\* most one record, and writes to the store nothing but the bytes of the record it
\* reads; when the call goes on to read the next header, the blob of every blob
\* record read so far is committed, so no ingestion is in progress across a read
\* and the blobs are committed in the order of their records; the one write that
\* reads no record is that of the legacy manifest, at the end of the stream.
C20_OneRecordAtATime ==
    [][/\ pc = "scan" =>
             \A k \in 1..Len(read) : BlobRecord(read[k]) => Blob(read[k].Data) \in store
       /\ Len(read') <= Len(read) + 1
       /\ SubSeq(read', 1, Len(read)) = read
       /\ \A hdr \in RecordsOCI \cup RecordsDocker1 :
             read' = Append(read, hdr) =>
                 /\ store' \ store \subseteq {Blob(hdr.Data)}
                 /\ BlobRecord(hdr) /\ pc' = "scan" => Blob(hdr.Data) \in store'
       /\ read' = read /\ store' # store => variant = "docker1" /\ eof' /\ pc' = "done"
      ]_vars

C20_Witness ==
    /\ variant = "docker1" /\ pc = "scan" /\ Len(read) = 3
    /\ read[1].Name = "l1/layer.tar" /\ read[2].Name = "c0.json"
    /\ read[3].Name = "l0/layer.tar"
    /\ \A k \in 1..3 : BlobRecord(read[k])
    /\ store = {Blob(read[1].Data), Blob(read[2].Data), Blob(read[3].Data)}
    /\ Cardinality(store) = 3


\* the blob records of the stream read so far whose bytes have the digest dgst
CarriedUnder(dgst) == {r \in RegularRead : BlobRecord(r) /\ FromBytes(r.Data) = dgst}

ImportSuccess == Done /\ ret.err = Nil /\ ret.val # <<>>

\* C21 as stated: whenever Import returns a descriptor, of either variant, the
\* blob of the descriptor's digest is in the content store.
C21_Original == ImportSuccess => StoredUnder(store, ret.val[1].Digest) # {}

\* C21: when a legacy Import returns a descriptor, the store holds one blob under
\* the descriptor's digest, committed by the call, and its bytes are the manifest
\* the descriptor's size and digest are those of; when an OCI Import returns a
\* descriptor, it is the entry selected from the last index.json as the index
\* gives it, and the store holds a blob under its digest iff the stream carried a
\* blob record of these bytes (the store being empty when the call began).
C21_ReturnedBlobStored ==
    /\ LegacySuccess =>
          \E b \in store :
             /\ StoredUnder(store, ret.val[1].Digest) = {b}
             /\ FromBytes(b.data) = ret.val[1].Digest
             /\ Len(b.data) = ret.val[1].Size
             /\ HasPrefix(b.data, "{schemaVersion:2,")
             /\ \A r \in RegularRead : r.Data # b.data
    /\ variant = "oci" /\ ImportSuccess =>
          /\ ret.val[1] = onUntarIndexJSON(LastRecordNamed("index.json").Data, filter).val[1]
          /\ StoredUnder(store, ret.val[1].Digest) # {} <=> CarriedUnder(ret.val[1].Digest) # {}

C21_Witness ==
    /\ LegacySuccess
    /\ Names(RegularRead) = {"manifest.json", "c1.json", "l1/layer.tar"}
    /\ Cardinality(store) = 3
    /\ StoredUnder(store, ret.val[1].Digest) # {}


\* the blobs of the layer and config records read so far
ScanBlobs == {Blob(r.Data) : r \in LayerRead \cup ConfigRead}

\* the stored blobs whose bytes are a schema 2 manifest
ManifestBlobs(st) == {b \in st : HasPrefix(b.data, "{schemaVersion:")}

\* the failures of the legacy Import after the loop
ResolutionFailures == {"no manifest found", "image config not found", "layer not found"}

\* C23: a legacy Import that began on an empty store holds a translated manifest
\* blob only when it has reached the end of the stream with an entry selected
\* whose config name and every layer name are in the tables, and has returned
\* its descriptor; when it fails at the end of the stream with no manifest, a
\* missing config or a missing layer, the store holds exactly the blobs of the
\* layer and config records of the scan and no manifest blob.
C23_ManifestWrittenLast ==
    variant = "docker1" =>
        /\ ManifestBlobs(store) # {} =>
              /\ LegacySuccess /\ eof /\ mfst # <<>>
              /\ mfst[1].Config \in DOMAIN configs
              /\ \A k \in 1..Len(mfst[1].Layers) : mfst[1].Layers[k] \in DOMAIN layers
              /\ store = ScanBlobs \cup ManifestBlobs(store)
              /\ Cardinality(ManifestBlobs(store)) = 1
        /\ Done /\ eof /\ ret.err.kind \in ResolutionFailures =>
              /\ store = ScanBlobs
              /\ ManifestBlobs(store) = {}
              /\ ret.val = <<>>
        /\ pc = "scan" => ManifestBlobs(store) = {}

\* a selected entry with its config and its first layer ingested, the second
\* layer missing
C23_Witness ==
    /\ variant = "docker1" /\ Done /\ eof
    /\ mfst = <<entryOne>>
    /\ ret.err = Errorf("layer not found", "l1/layer.tar")
    /\ Names(ConfigRead) = {"c0.json"} /\ Names(LayerRead) = {"l0/layer.tar"}
    /\ Cardinality(store) = 2


\* the positions in the stream of the regular metadata-file records read so far
MetadataAt == {k \in 1..Len(read) : IsRegular(read[k]) /\ read[k].Name = MetadataName}

LastMetadataAt == CHOOSE k \in MetadataAt : \A j \in MetadataAt : j <= k

\* parsing and filtering of the metadata-file record r under the call's filter
SelectionOf(r) ==
    IF variant = "oci" THEN onUntarIndexJSON(r.Data, filter)
    ELSE onUntarManifestJSON(r.Data, filter)

\* the selection the call holds
Selection == IF variant = "oci" THEN desc ELSE mfst

\* C22: with any number of metadata-file records in the stream, every one before
\* the last read was parsed and filtered without error; while the call goes on,
\* the selection it holds is that of the last one read; a metadata-file record
\* whose parsing or selection fails is the last record the call reads, and the
\* call returns that error; at the end of the stream the OCI call returns the
\* last record's selection, and the legacy call resolves the last record's
\* selection: the manifest it writes, and the config it reports missing, are
\* those of that entry.
C22_LastMetadataWins ==
    /\ MetadataAt = {} => Selection = <<>>
    /\ MetadataAt # {} =>
          LET last == SelectionOf(read[LastMetadataAt])
          IN  /\ \A k \in MetadataAt : k < LastMetadataAt => SelectionOf(read[k]).err = Nil
              /\ pc = "scan" => last.err = Nil /\ Selection = last.val
              /\ last.err # Nil =>
                    /\ Done /\ ~eof /\ LastMetadataAt = Len(read)
                    /\ ret = Return(<<>>, last.err)
              /\ Done /\ eof => last.err = Nil /\ Selection = last.val
              /\ Done /\ eof /\ variant = "oci" => ret = Return(last.val, Nil)
              /\ LegacySuccess =>
                    /\ last.val[1].Config \in DOMAIN configs
                    /\ ret.val[1].Digest =
                          FromBytes(Marshal([SchemaVersion |-> 2,
                                             Config |-> configs[last.val[1].Config].desc,
                                             Layers |-> [k \in 1..Len(last.val[1].Layers) |->
                                                           layers[last.val[1].Layers[k]]]]))
              /\ variant = "docker1" /\ Done /\ eof /\ ret.err.kind = "image config not found" =>
                    ret.err.arg = last.val[1].Config

\* two manifest.json records selecting different entries, the config and the
\* layer of the second one's entry in the stream
C22_Witness ==
    /\ LegacySuccess /\ filter = "index==1" /\ Len(read) = 4
    /\ MetadataAt = {1, 3}
    /\ SelectionOf(read[1]).val = <<entryOne>>
    /\ SelectionOf(read[3]).val = <<entryTwo>>
    /\ mfst = <<entryTwo>>

====
